---- MODULE Spec2Model ----
(***************************************************************************)
(* A model of the document compilation pipeline: text cleaning and          *)
(* chunking (document_compiler.py, document_processor.py,                   *)
(* text_to_xml_converter.py), table cleaning and image optimisation         *)
(* (document_utils.py) and the directory walk that assembles the story.     *)
(*                                                                          *)
(* Strings are run-length encoded: a string is a sequence of runs           *)
(* <<code point, count>>, count >= 1, standing for the code point repeated  *)
(* count times.  "aa b" is << <<97, 2>>, <<32, 1>>, <<98, 1>> >>.  Every     *)
(* string operation below is the Python operation carried over to runs, so  *)
(* that words of 2000 characters and more stay checkable.                   *)
(***************************************************************************)
EXTENDS Integers, Sequences, FiniteSets, TLC

VARIABLES pc, input, output, files, idx, story, aborted

vars == <<pc, input, output, files, idx, story, aborted>>

(***************************************************************************)
(* Bounds of the model.                                                     *)
(***************************************************************************)
MaxRuns == 5
MaxRep == 2
MaxChunkRuns == 5
MaxRows == 3
MaxCols == 2
MaxSide == 9
MaxBox == 9
MaxFiles == 3
MaxName == 2
MaxDepth == 2
MaxPaths == 3
MaxClock == 2
MaxDocxRows == 3
MaxDocxCols == 2

(***************************************************************************)
(* Run-length encoded strings.                                              *)
(***************************************************************************)
RECURSIVE StrLen(_)
StrLen(s) == IF s = <<>> THEN 0 ELSE Head(s)[2] + StrLen(Tail(s))

RECURSIVE Norm(_)
Norm(s) ==
    IF Len(s) <= 1 THEN s
    ELSE LET r == Norm(Tail(s)) IN
         IF Head(s)[1] = Head(r)[1]
         THEN << <<Head(s)[1], Head(s)[2] + Head(r)[2]>> >> \o Tail(r)
         ELSE <<Head(s)>> \o r

Canonical(s) == \A i \in 1..(Len(s) - 1) : s[i][1] # s[i + 1][1]

\* str.isspace(), which decides re's \s, str.strip() and str.split()
Whitespace == {9, 10, 11, 12, 13, 28, 29, 30, 31, 32, 133, 160}

IsSpace(c) == c \in Whitespace

RECURSIVE LStrip(_)
LStrip(s) == IF s # <<>> /\ IsSpace(Head(s)[1]) THEN LStrip(Tail(s)) ELSE s

RECURSIVE RStrip(_)
RStrip(s) ==
    IF s # <<>> /\ IsSpace(s[Len(s)][1]) THEN RStrip(SubSeq(s, 1, Len(s) - 1)) ELSE s

Strip(s) == RStrip(LStrip(s))

RECURSIVE RepeatSeq(_, _)
RepeatSeq(s, n) == IF n = 0 THEN <<>> ELSE s \o RepeatSeq(s, n - 1)

(***************************************************************************)
(* clean_text                                                               *)
(***************************************************************************)
\* the replacements table: what one code point is replaced by
Replacement(c) ==
    CASE c = 8211 -> <<45>>
      [] c = 8212 -> <<45>>
      [] c = 8216 -> <<39>>
      [] c = 8217 -> <<39>>
      [] c = 8220 -> <<34>>
      [] c = 8221 -> <<34>>
      [] c = 243 -> <<111>>
      [] c = 160 -> <<32>>
      [] c = 8226 -> <<42>>
      [] c = 174 -> <<40, 82, 41>>
      [] c = 8482 -> <<40, 84, 77, 41>>
      [] c = 169 -> <<40, 99, 41>>
      [] OTHER -> <<c>>

ReplaceRun(r) ==
    LET rep == Replacement(r[1]) IN
    IF Len(rep) = 1 THEN << <<rep[1], r[2]>> >>
    ELSE RepeatSeq([i \in 1..Len(rep) |-> <<rep[i], 1>>], r[2])

RECURSIVE ReplaceAll(_)
ReplaceAll(s) == IF s = <<>> THEN <<>> ELSE ReplaceRun(Head(s)) \o ReplaceAll(Tail(s))

\* ''.join(char for char in text if ord(char) >= 32 or char in '\n\t')
Printable(r) == r[1] >= 32 \/ r[1] \in {10, 9}

StripControl(s) == SelectSeq(s, Printable)

\* re.sub(r'\s+', ' ', text)
RECURSIVE CollapseWhitespace(_)
CollapseWhitespace(s) ==
    IF s = <<>> THEN <<>>
    ELSE IF IsSpace(Head(s)[1])
         THEN << <<32, 1>> >> \o CollapseWhitespace(LStrip(s))
         ELSE <<Head(s)>> \o CollapseWhitespace(Tail(s))

\* DocumentCompiler.clean_text: replace, strip control characters, collapse, trim
Compiler_clean_text(text) ==
    IF text = <<>> THEN <<>>
    ELSE Norm(Strip(CollapseWhitespace(StripControl(ReplaceAll(text)))))

\* DocumentProcessor.clean_text: collapse, strip control characters, trim
Processor_clean_text(text) ==
    IF text = <<>> THEN <<>>
    ELSE Norm(Strip(StripControl(CollapseWhitespace(text))))

\* text_to_xml_converter.py DocumentProcessor.clean_text: the same statements
Xml_clean_text(text) ==
    IF text = <<>> THEN <<>>
    ELSE Norm(Strip(StripControl(CollapseWhitespace(text))))

(***************************************************************************)
(* Inputs of the text cleaning specification.                               *)
(***************************************************************************)
\* SOH, newline, unit separator, space, a, no-break space, (R), em dash
CleanChars == {1, 10, 31, 32, 97, 160, 174, 8212}

CleanRuns == (CleanChars \X {1}) \cup ({32, 97} \X (1..MaxRep))


Idle == /\ files = <<>>
        /\ idx = 0
        /\ story = <<>>
        /\ aborted = FALSE

InitClean ==
    /\ pc = "init"
    /\ \E k \in 0..MaxRuns : \E s \in [1..k -> CleanRuns] : Canonical(s) /\ input = s
    /\ output = <<>>
    /\ Idle

CleanTextCompiler ==
    /\ pc = "init"
    /\ output' = Compiler_clean_text(input)
    /\ pc' = "compiler"
    /\ UNCHANGED <<input, files, idx, story, aborted>>

CleanTextProcessor ==
    /\ pc = "init"
    /\ output' = Processor_clean_text(input)
    /\ pc' = "processor"
    /\ UNCHANGED <<input, files, idx, story, aborted>>

CleanTextXml ==
    /\ pc = "init"
    /\ output' = Xml_clean_text(input)
    /\ pc' = "xml"
    /\ UNCHANGED <<input, files, idx, story, aborted>>

NextClean == CleanTextCompiler \/ CleanTextProcessor \/ CleanTextXml

SpecClean == InitClean /\ [][NextClean]_vars

\* no code point below 32 other than newline and tab
NoControl(s) == \A i \in 1..Len(s) : s[i][1] >= 32 \/ s[i][1] \in {10, 9}

\* no two consecutive space characters
NoDoubleSpace(s) ==
    /\ \A i \in 1..Len(s) : s[i][1] = 32 => s[i][2] = 1
    /\ \A i \in 1..(Len(s) - 1) : ~(s[i][1] = 32 /\ s[i + 1][1] = 32)

\* C1: the result of every clean_text variant has no control character other
\* than newline/tab and no run of two or more spaces.
C1_CleanEveryVariant ==
    pc \in {"compiler", "processor", "xml"} => NoControl(output) /\ NoDoubleSpace(output)

(***************************************************************************)
(* create_paragraph                                                         *)
(***************************************************************************)
max_chunk == 2000

\* the number of runs of the first word of t, which starts with a non-space run
WordEnd(t) ==
    CHOOSE i \in 1..Len(t) :
        /\ \A j \in 1..i : ~IsSpace(t[j][1])
        /\ i = Len(t) \/ IsSpace(t[i + 1][1])

\* str.split(): the maximal blocks of non-whitespace characters
RECURSIVE Split(_)
Split(s) ==
    LET t == LStrip(s) IN
    IF t = <<>> THEN <<>>
    ELSE <<SubSeq(t, 1, WordEnd(t))>> \o Split(SubSeq(t, WordEnd(t) + 1, Len(t)))

\* ' '.join(parts)
RECURSIVE JoinRuns(_)
JoinRuns(parts) ==
    IF parts = <<>> THEN <<>>
    ELSE IF Len(parts) = 1 THEN parts[1]
    ELSE parts[1] \o << <<32, 1>> >> \o JoinRuns(Tail(parts))

Join(parts) == Norm(JoinRuns(parts))

\* the test that closes the current chunk before a word
OverflowsNoSeparator(current_length, word) ==
    current_length + StrLen(word) > max_chunk

Overflows(current_length, word) ==
    current_length + StrLen(word) + 1 > max_chunk

\* the for loop over words and the final append
RECURSIVE ChunkLoop(_, _, _, _)
ChunkLoop(words, chunks, current_chunk, current_length) ==
    IF words = <<>>
    THEN IF current_chunk # <<>> THEN Append(chunks, Join(current_chunk)) ELSE chunks
    ELSE LET word == Head(words) IN
         IF Overflows(current_length, word)
         THEN ChunkLoop(Tail(words), Append(chunks, Join(current_chunk)),
                        <<word>>, StrLen(word))
         ELSE ChunkLoop(Tail(words), chunks, Append(current_chunk, word),
                        current_length + StrLen(word) + 1)

\* the body of create_paragraph after cleaning: one Paragraph, or a list of them
ParagraphsOf(cleaned_text) ==
    IF StrLen(cleaned_text) <= max_chunk
    THEN [kind |-> "paragraph", texts |-> <<cleaned_text>>]
    ELSE [kind |-> "list", texts |-> ChunkLoop(Split(cleaned_text), <<>>, <<>>, 0)]

Compiler_create_paragraph(text) == ParagraphsOf(Compiler_clean_text(text))

Processor_create_paragraph(text) == ParagraphsOf(Processor_clean_text(text))

(***************************************************************************)
(* Inputs of the chunking specification: words of one letter repeated, of   *)
(* lengths around max_chunk, separated by spaces and control characters.    *)
(***************************************************************************)
WordLens == {1, max_chunk \div 2, max_chunk - 1, max_chunk, max_chunk + 1}

ChunkRuns == ({97} \X WordLens) \cup ({98} \X {1, max_chunk}) \cup ({32, 1} \X {1})

InitChunk ==
    /\ pc = "init"
    /\ \E k \in 0..MaxChunkRuns : \E s \in [1..k -> ChunkRuns] : Canonical(s) /\ input = s
    /\ output = <<>>
    /\ Idle

CreateParagraphCompiler ==
    /\ pc = "init"
    /\ output' = Compiler_create_paragraph(input)
    /\ pc' = "para_compiler"
    /\ UNCHANGED <<input, files, idx, story, aborted>>

CreateParagraphProcessor ==
    /\ pc = "init"
    /\ output' = Processor_create_paragraph(input)
    /\ pc' = "para_processor"
    /\ UNCHANGED <<input, files, idx, story, aborted>>

NextChunk == CreateParagraphCompiler \/ CreateParagraphProcessor

SpecChunk == InitChunk /\ [][NextChunk]_vars

\* the cleaned text the paragraphs of the current state were made from
CleanedInput ==
    IF pc = "para_compiler" THEN Compiler_clean_text(input) ELSE Processor_clean_text(input)

Chunked == pc \in {"para_compiler", "para_processor"} /\ StrLen(CleanedInput) > max_chunk

\* C2: when the cleaned text is longer than max_chunk, every chunk of the word
\* loop is at most max_chunk long, or is one single word longer than max_chunk.
C2_ChunkBound ==
    Chunked =>
        \A i \in 1..Len(output.texts) :
            \/ StrLen(output.texts[i]) <= max_chunk
            \/ Len(Split(output.texts[i])) = 1

\* a chunked text with a chunk of several words and a chunk that is one
\* overlong word
C2_Witness ==
    /\ Chunked
    /\ \E i \in 1..Len(output.texts) : Len(Split(output.texts[i])) >= 2
    /\ \E i \in 1..Len(output.texts) : StrLen(output.texts[i]) > max_chunk

\* C3: when the cleaned text is longer than max_chunk, the chunks joined with
\* single spaces are the cleaned text, and no chunk is empty.
C3_ChunksRejoin ==
    Chunked =>
        /\ Join(output.texts) = CleanedInput
        /\ \A i \in 1..Len(output.texts) : output.texts[i] # <<>>

(***************************************************************************)
(* clean_table_data.  A DataFrame is its row labels (index), its column     *)
(* labels (columns) and its rows of cells (values).  A cell is NaN, None    *)
(* or a string; pandas 2.x semantics: astype(str) writes a missing cell as  *)
(* the text 'nan' / 'None', replace('', None) makes an empty string         *)
(* missing, ffill() fills a missing cell from the last present cell above.  *)
(***************************************************************************)
NaN == [kind |-> "nan", s |-> <<>>]

None == [kind |-> "none", s |-> <<>>]

StrCell(s) == [kind |-> "str", s |-> s]

IsNA(cell) == cell.kind \in {"nan", "none"}

\* the members of a set of positions, in ascending order
RECURSIVE Ascending(_)
Ascending(S) ==
    IF S = {} THEN <<>>
    ELSE LET m == CHOOSE x \in S : \A y \in S : x <= y IN <<m>> \o Ascending(S \ {m})

\* df.dropna(how='all'): the rows with at least one present cell
DropNaRows(df) ==
    LET Present(i) == \E j \in 1..Len(df.values[i]) : ~IsNA(df.values[i][j])
        keep == Ascending({i \in 1..Len(df.values) : Present(i)})
    IN  [index |-> [k \in 1..Len(keep) |-> df.index[keep[k]]],
         columns |-> df.columns,
         values |-> [k \in 1..Len(keep) |-> df.values[keep[k]]]]

\* df.dropna(axis=1, how='all'): the columns with at least one present cell
DropNaColumns(df) ==
    LET Present(j) == \E i \in 1..Len(df.values) : ~IsNA(df.values[i][j])
        keep == Ascending({j \in 1..Len(df.columns) : Present(j)})
    IN  [index |-> df.index,
         columns |-> [k \in 1..Len(keep) |-> df.columns[keep[k]]],
         values |-> [i \in 1..Len(df.values) |->
                        [k \in 1..Len(keep) |-> df.values[i][keep[k]]]]]

\* df.astype(str): 'nan' for NaN, 'None' for None
AsTypeStr(cell) ==
    CASE cell.kind = "nan" -> StrCell(<< <<110, 1>>, <<97, 1>>, <<110, 1>> >>)
      [] cell.kind = "none" ->
            StrCell(<< <<78, 1>>, <<111, 1>>, <<110, 1>>, <<101, 1>> >>)
      [] OTHER -> cell

\* x.str.strip()
StripCell(cell) == StrCell(Strip(cell.s))

\* df.replace('', None)
ReplaceEmpty(cell) == IF cell = StrCell(<<>>) THEN None ELSE cell

\* df.ffill(): the last present cell at or above row i of column j
RECURSIVE LastValid(_, _, _)
LastValid(values, i, j) ==
    IF i = 0 THEN None
    ELSE IF ~IsNA(values[i][j]) THEN values[i][j]
    ELSE LastValid(values, i - 1, j)

FFill(df) ==
    [df EXCEPT !.values =
        [i \in 1..Len(df.values) |->
            [j \in 1..Len(df.values[i]) |-> LastValid(df.values, i, j)]]]

\* astype(str), strip and replace act cell by cell, one after the other
CleanCells(df) ==
    [df EXCEPT !.values =
        [i \in 1..Len(df.values) |->
            [j \in 1..Len(df.values[i]) |->
                ReplaceEmpty(StripCell(AsTypeStr(df.values[i][j])))]]]

clean_table_data(df) == FFill(CleanCells(DropNaColumns(DropNaRows(df))))

(***************************************************************************)
(* Inputs of the table specification: every grid of at most MaxRows rows    *)
(* and MaxCols columns over NaN, None, '', ' ', 'X' and 'Y '.               *)
(***************************************************************************)
TableCells ==
    {NaN, None, StrCell(<<>>), StrCell(<< <<32, 1>> >>), StrCell(<< <<88, 1>> >>),
     StrCell(<< <<89, 1>>, <<32, 1>> >>)}

Frame(n, m, v) ==
    [index |-> [i \in 1..n |-> i], columns |-> [j \in 1..m |-> j], values |-> v]

InitTable ==
    /\ pc = "init"
    /\ \E n \in 1..MaxRows, m \in 1..MaxCols :
          \E v \in [1..n -> [1..m -> TableCells]] : input = Frame(n, m, v)
    /\ output = <<>>
    /\ Idle

CleanTableData ==
    /\ pc = "init"
    /\ output' = clean_table_data(input)
    /\ pc' = "cleaned"
    /\ UNCHANGED <<input, files, idx, story, aborted>>

NextTable == CleanTableData

SpecTable == InitTable /\ [][NextTable]_vars

\* absent, or empty once trimmed
EmptyCell(cell) == IsNA(cell) \/ Strip(cell.s) = <<>>

InSeq(x, q) == \E k \in 1..Len(q) : q[k] = x

\* C5: the output of clean_table_data is rectangular and keeps no row and no
\* column all of whose input cells were absent, empty or whitespace-only.
C5_RectangularNoEmpty ==
    pc = "cleaned" =>
        /\ \A i \in 1..Len(output.values) : Len(output.values[i]) = Len(output.columns)
        /\ \A r \in 1..Len(input.values) :
              InSeq(r, output.index) =>
                  \E c \in 1..Len(input.columns) : ~EmptyCell(input.values[r][c])
        /\ \A c \in 1..Len(input.columns) :
              InSeq(c, output.columns) =>
                  \E r \in 1..Len(input.values) : ~EmptyCell(input.values[r][c])

\* the output cell of input row r and column c, both kept
OutputCell(r, c) ==
    LET i == CHOOSE k \in 1..Len(output.index) : output.index[k] = r
        j == CHOOSE k \in 1..Len(output.columns) : output.columns[k] = c
    IN  output.values[i][j]

\* C6: a cell that is absent or empty after trimming, below a cell holding a
\* non-empty value X, holds X (trimmed) in the output.
C6_ForwardFill ==
    pc = "cleaned" =>
        \A r \in 2..Len(input.values), c \in 1..Len(input.columns) :
            (/\ EmptyCell(input.values[r][c])
             /\ ~EmptyCell(input.values[r - 1][c])
             /\ InSeq(r, output.index))
            => OutputCell(r, c) = StripCell(input.values[r - 1][c])

\* C18: a kept cell that is absent or empty after trimming, with no non-empty
\* value above it in its column, is the empty string in the output.
C18_UnfilledIsEmptyString ==
    pc = "cleaned" =>
        \A r \in 1..Len(input.values), c \in 1..Len(input.columns) :
            (/\ InSeq(r, output.index)
             /\ InSeq(c, output.columns)
             /\ \A q \in 1..r : EmptyCell(input.values[q][c]))
            => OutputCell(r, c) = StrCell(<<>>)

(***************************************************************************)
(* optimize_image.  Image data is what decoding it gives: whether it        *)
(* decodes ("ok"), is no image at all ("unidentified": Image.open raises)   *)
(* or is cut short ("truncated": Image.open reads the header and the first  *)
(* operation that loads the pixels raises), its mode and its size <<w, h>>. *)
(***************************************************************************)
DefaultMaxSide == 800

Bytes(decode, mode, size) == [decode |-> decode, mode |-> mode, size |-> size]

\* The triples <<m, w, h>> of the model's sizes and boxes for which the
\* IEEE-754 double value of m / (w / h) lies just below the exact integer
\* quotient m*h/w, so that int() gives one less: 9 / (9 / 7) = 6.999999999999999.
\* For every other triple of the model int(m / (w / h)) is the floor of the
\* exact quotient, and int(m * (w / h)) is for all of them.
RoundsBelow == {<<9, 9, 7>>}

\* int(max_size[0] / aspect), aspect = w / h
IntDivAspect(m, w, h) ==
    IF <<m, w, h>> \in RoundsBelow THEN ((m * h) \div w) - 1 ELSE (m * h) \div w

\* int(max_size[1] * aspect), aspect = w / h
IntMulAspect(m, w, h) == (m * w) \div h

\* new_size: a landscape image is scaled to the box width, any other to the box height
NewSize(size, max_size) ==
    IF size[1] > size[2]
    THEN <<max_size[1], IntDivAspect(max_size[1], size[1], size[2])>>
    ELSE <<IntMulAspect(max_size[2], size[1], size[2]), max_size[2]>>

NeedsResize(size, max_size) == size[1] > max_size[1] \/ size[2] > max_size[2]

\* img.convert('RGB') for the modes RGBA and P
ConvertedMode(mode) == IF mode \in {"RGBA", "P"} THEN "RGB" ELSE mode

\* the modes the JPEG encoder writes
JpegModes == {"1", "L", "RGB", "RGBX", "CMYK", "YCbCr"}

\* The body of the try block: the stage that raises ("open", "load", "resize",
\* "save"), or "none" and the encoded result.
OptimizeBody(image_data, max_size) ==
    LET mode == ConvertedMode(image_data.mode)
        resized == NeedsResize(image_data.size, max_size)
        size == IF resized THEN NewSize(image_data.size, max_size) ELSE image_data.size
    IN  IF image_data.decode = "unidentified" THEN [raises |-> "open", value |-> None]
        ELSE IF image_data.decode = "truncated" THEN [raises |-> "load", value |-> None]
        ELSE IF resized /\ (size[1] <= 0 \/ size[2] <= 0)
             THEN [raises |-> "resize", value |-> None]
        ELSE IF mode \notin JpegModes THEN [raises |-> "save", value |-> None]
        ELSE [raises |-> "none", value |-> Bytes("ok", mode, size)]

\* a handler that catches the failure of Image.open alone
OptimizeCatchesOpenOnly(image_data, max_size) ==
    LET r == OptimizeBody(image_data, max_size) IN
    [raised |-> r.raises \notin {"none", "open"}, value |-> r.value]

\* try: ... except Exception: return None
optimize_image(image_data, max_size) ==
    LET r == OptimizeBody(image_data, max_size) IN
    [raised |-> FALSE, value |-> r.value]

(***************************************************************************)
(* Inputs of the image specification: every size and every box with sides   *)
(* up to MaxSide and MaxBox, some large sizes and the default box.          *)
(***************************************************************************)
ImageSizes ==
    ((1..MaxSide) \X (1..MaxSide)) \cup
    {<<2000, 1000>>, <<1000, 2000>>, <<1000, 1000>>, <<2000, 1>>, <<1, 2000>>, <<400, 300>>}

Boxes == ((1..MaxBox) \X (1..MaxBox)) \cup {<<DefaultMaxSide, DefaultMaxSide>>}

ImageModes == {"RGB", "RGBA", "P", "LA"}

ImageInputs ==
    {Bytes("ok", m, sz) : m \in ImageModes, sz \in ImageSizes}
    \cup {Bytes("truncated", "RGB", sz) : sz \in ImageSizes}
    \cup {Bytes("unidentified", "RGB", <<1, 1>>)}

InitImage ==
    /\ pc = "init"
    /\ \E img \in ImageInputs, box \in Boxes : input = [image_data |-> img, max_size |-> box]
    /\ output = <<>>
    /\ Idle

\* output holds the results of the calls so far; aborted tells that a call raised
OptimizeImage ==
    /\ pc = "init"
    /\ LET r == optimize_image(input.image_data, input.max_size) IN
          /\ output' = <<r.value>>
          /\ aborted' = r.raised
    /\ pc' = "optimized"
    /\ UNCHANGED <<input, files, idx, story>>

\* optimize_image on its own output, with the same max_size
OptimizeAgain ==
    /\ pc = "optimized"
    /\ ~aborted
    /\ output[1] # None
    /\ LET r == optimize_image(output[1], input.max_size) IN
          /\ output' = Append(output, r.value)
          /\ aborted' = r.raised
    /\ pc' = "reoptimized"
    /\ UNCHANGED <<input, files, idx, story>>

NextImage == OptimizeImage \/ OptimizeAgain

SpecImage == InitImage /\ [][NextImage]_vars

Abs(x) == IF x < 0 THEN -x ELSE x

\* the ratio of size2 is that of size1 within one pixel on the computed side
SameAspect(size1, size2) ==
    Abs(size2[1] * size1[2] - size2[2] * size1[1])
        <= (IF size1[1] > size1[2] THEN size1[1] ELSE size1[2])

\* C7: a result of optimize_image that is not None fits max_size in both axes
\* and keeps the aspect ratio within one pixel, for every box.
C7_FitsBox ==
    (pc = "optimized" /\ output[1] # None) =>
        /\ output[1].size[1] <= input.max_size[1]
        /\ output[1].size[2] <= input.max_size[2]
        /\ SameAspect(input.image_data.size, output[1].size)

\* C8: optimize_image applied to its own output with the same max_size gives
\* an image of the same width and height.
C8_IdempotentSize ==
    (pc = "reoptimized" /\ output[2] # None) => output[2].size = output[1].size

\* what makes a stage of optimize_image fail on the first call
UndecodableInput == input.image_data.decode # "ok"

ZeroSideInput ==
    /\ input.image_data.decode = "ok"
    /\ NeedsResize(input.image_data.size, input.max_size)
    /\ \E k \in 1..2 : NewSize(input.image_data.size, input.max_size)[k] = 0

UnwritableInput ==
    /\ input.image_data.decode = "ok"
    /\ ConvertedMode(input.image_data.mode) \notin JpegModes

\* C9: optimize_image never raises; it returns None when the bytes do not
\* decode and when resizing (a side of 0 pixels) or encoding fails.
C9_NeverRaises ==
    /\ ~aborted
    /\ (pc = "optimized" /\ (UndecodableInput \/ ZeroSideInput \/ UnwritableInput))
          => output[1] = None

\* an extreme aspect ratio whose computed side is 0 pixels came back as None
C9_Witness ==
    /\ pc = "optimized"
    /\ ZeroSideInput
    /\ ~UnwritableInput
    /\ output[1] = None
    /\ ~aborted

(***************************************************************************)
(* The story and the per-format handlers of DocumentCompiler.               *)
(*                                                                          *)
(* A file of the directory is what the handlers read from it:               *)
(*   ext        the lower-cased suffix                                      *)
(*   stat_ok    stat() and relative_to() succeed (add_metadata_block)       *)
(*   open_ok    the file opens as its format: open() for .txt and images,   *)
(*              PdfReader, Document, load_workbook                          *)
(*   decode_ok  the bytes of a .txt file are UTF-8                          *)
(*   text       the content of a .txt file                                  *)
(*   image_data the bytes of an image file                                  *)
(*   fitz_ok    fitz opens the PDF and lists its pages                      *)
(*   images     the embedded images of a PDF: [extract, ext, data]          *)
(*   tables     the detected tables of a PDF: [extract, frame]              *)
(*   pages      the pages of a PDF: [extract, text]                         *)
(*   sheets     the sheets of a workbook: rows of cells (None or a string)  *)
(*   docx_tables the tables of a document: rows of cells [text, vmerge]     *)
(*   body       the tags of the children of the document's body             *)
(*   body_text  the text of each child of the body that is a paragraph      *)
(*   first_p    the text of the first w:p of the document                   *)
(*   ct_p_text  the oxml paragraph class of the installed python-docx has   *)
(*              a text property                                             *)
(*   rels       the relationships of the document: [is_image, data]         *)
(* The file's position in the sorted enumeration stands for its path.  An   *)
(* element of the story is [kind, src, n, text, data]: src is the file it   *)
(* was appended for (0: the title page), n its index, page number or        *)
(* height.                                                                  *)
(***************************************************************************)
Elem(kind, src, n, text, data) ==
    [kind |-> kind, src |-> src, n |-> n, text |-> text, data |-> data]

Spacer(src, height) == Elem("spacer", src, height, <<>>, <<>>)

RECURSIVE Concat(_)
Concat(seqs) == IF seqs = <<>> THEN <<>> ELSE Head(seqs) \o Concat(Tail(seqs))

DefaultBox == <<DefaultMaxSide, DefaultMaxSide>>

\* the Paragraph, or the list of Paragraphs, of create_paragraph as story elements
BodyElems(text, src, n) ==
    LET r == Compiler_create_paragraph(text) IN
    [k \in 1..Len(r.texts) |-> Elem("body", src, n, r.texts[k], <<>>)]

\* add_metadata_block: the four lines are built first (stat, relative_to), then
\* appended with a Spacer
add_metadata_block(f, src) ==
    IF f.stat_ok
    THEN [raised |-> FALSE,
          elems |-> [k \in 1..4 |-> Elem("metadata", src, k, <<>>, <<>>)]
                    \o <<Spacer(src, 12)>>]
    ELSE [raised |-> TRUE, elems |-> <<>>]

\* create_reportlab_table: None for no rows ("none"); the column widths divide by
\* the length of the first row and Table() rejects rows of different lengths
\* ("raised"); otherwise the Table of the rows ("table")
create_reportlab_table(data) ==
    IF data = <<>> THEN [result |-> "none", rows |-> <<>>]
    ELSE IF Len(data[1]) = 0 THEN [result |-> "raised", rows |-> <<>>]
    ELSE IF \E k \in 1..Len(data) : Len(data[k]) # Len(data[1])
         THEN [result |-> "raised", rows |-> <<>>]
    ELSE [result |-> "table", rows |-> data]

\* [cleaned_df.columns.tolist()] + cleaned_df.values.tolist()
TableData(df) == <<df.columns>> \o df.values

\* extract_images_from_pdf: the images that extract and are jpeg, jpg or png;
\* [] when fitz fails to open the file or to list the images of a page
extract_images_from_pdf(f) ==
    IF ~f.fitz_ok \/ \E k \in 1..Len(f.images) : f.images[k].extract = "page_raises"
    THEN <<>>
    ELSE LET Usable(item) == item.extract = "ok" /\ item.ext \in {"jpeg", "jpg", "png"}
         IN  SelectSeq(f.images, Usable)

\* extract_tables_from_pdf: the frames that are not empty; [] on any exception
extract_tables_from_pdf(f) ==
    IF ~f.fitz_ok \/ \E k \in 1..Len(f.tables) : f.tables[k].extract # "ok" THEN <<>>
    ELSE LET NotEmpty(item) == Len(item.frame.index) > 0 /\ Len(item.frame.columns) > 0
             kept == SelectSeq(f.tables, NotEmpty)
         IN  [k \in 1..Len(kept) |-> kept[k].frame]

\* process_pdf's image loop without the test of optimize_image's result
PdfImageElemsUntested(f, src) ==
    LET images == extract_images_from_pdf(f) IN
    Concat([k \in 1..Len(images) |->
        <<Elem("image", src, k, <<>>, optimize_image(images[k].data, DefaultBox).value),
          Elem("caption", src, k, <<>>, <<>>),
          Spacer(src, 12)>>])

PdfImageElems(f, src) ==
    LET images == extract_images_from_pdf(f) IN
    Concat([k \in 1..Len(images) |->
        LET optimized_image == optimize_image(images[k].data, DefaultBox).value IN
        IF optimized_image # None
        THEN <<Elem("image", src, k, <<>>, optimized_image),
               Elem("caption", src, k, <<>>, <<>>),
               Spacer(src, 12)>>
        ELSE <<>>])

PdfTableElems(f, src) ==
    LET tables == extract_tables_from_pdf(f) IN
    Concat([k \in 1..Len(tables) |->
        LET table == create_reportlab_table(TableData(clean_table_data(tables[k]))) IN
        IF table.result = "table"
        THEN <<Elem("table", src, k, <<>>, table.rows),
               Elem("caption", src, k, <<>>, <<>>),
               Spacer(src, 12)>>
        ELSE <<>>])

PdfTextElems(f, src) ==
    IF ~f.open_ok THEN <<>>
    ELSE Concat([n \in 1..Len(f.pages) |->
        IF f.pages[n].extract = "ok" /\ Strip(f.pages[n].text) # <<>>
        THEN <<Elem("page_header", src, n, <<>>, <<>>)>>
             \o BodyElems(f.pages[n].text, src, n)
             \o <<Spacer(src, 12)>>
        ELSE <<>>])

Title(src) == Elem("title", src, 0, <<>>, <<>>)

\* process_pdf with the text of the pages read before the images and tables
process_pdf_text_first(f, src) ==
    LET meta == add_metadata_block(f, src) IN
    IF meta.raised THEN <<Title(src)>>
    ELSE <<Title(src)>> \o meta.elems
         \o PdfTextElems(f, src) \o PdfImageElems(f, src) \o PdfTableElems(f, src)

\* process_pdf: every exception is caught inside
process_pdf(f, src) ==
    LET meta == add_metadata_block(f, src) IN
    IF meta.raised THEN <<Title(src)>>
    ELSE <<Title(src)>> \o meta.elems
         \o PdfImageElems(f, src) \o PdfTableElems(f, src) \o PdfTextElems(f, src)

\* extract_table_from_docx, one row: the trimmed text of each cell; an empty
\* cell that continues a vertical merge takes the text at its position in the
\* nearest row above that is long enough
RECURSIVE MergedAbove(_, _)
MergedAbove(data, col) ==
    IF data = <<>> THEN <<>>
    ELSE IF Len(data[Len(data)]) >= col THEN data[Len(data)][col]
    ELSE MergedAbove(SubSeq(data, 1, Len(data) - 1), col)

DocxRowData(data, row) ==
    [k \in 1..Len(row) |->
        LET text == Strip(row[k].text) IN
        IF text = <<>> /\ row[k].vmerge THEN MergedAbove(data, k) ELSE text]

RECURSIVE DocxRows(_, _)
DocxRows(data, rows) ==
    IF rows = <<>> THEN data
    ELSE DocxRows(Append(data, DocxRowData(data, Head(rows))), Tail(rows))

extract_table_from_docx(table) == DocxRows(<<>>, table)

\* process_docx, "Process tables first": a table, its caption and a Spacer for
\* every table that extracts to some rows and that the renderer accepts
DocxTableElems(f, src) ==
    Concat([k \in 1..Len(f.docx_tables) |->
        LET table_data == extract_table_from_docx(f.docx_tables[k])
            rl_table == create_reportlab_table(table_data)
        IN  IF table_data # <<>> /\ rl_table.result = "table"
            THEN <<Elem("table", src, k, <<>>, rl_table.rows),
                   Elem("caption", src, k, <<>>, <<>>),
                   Spacer(src, 12)>>
            ELSE <<>>])

\* the images of the document's relationships, each followed by a Spacer
DocxImageElems(f, src) ==
    Concat([k \in 1..Len(f.rels) |->
        LET optimized_image == optimize_image(f.rels[k].data, DefaultBox).value IN
        IF f.rels[k].is_image /\ optimized_image # None
        THEN <<Elem("image", src, k, <<>>, optimized_image), Spacer(src, 12)>>
        ELSE <<>>])

\* process_docx, the loop over doc.element.body: a tag ending in 'p' (w:p) takes
\* the first w:p of the whole document, whatever the element is; a tag ending in
\* 'r' (w:sectPr) appends the images; w:tbl matches neither.  para is an oxml
\* element: where its class has no text property (python-docx before 1.0),
\* para.text is lxml's text, None, and para.text.strip() raises outside the inner
\* try, which ends the loop at the first w:p.
DocxBodyElems(f, src) ==
    LET paragraphs == {k \in 1..Len(f.body) : f.body[k] = "p"}
        last == IF f.ct_p_text \/ paragraphs = {} THEN Len(f.body)
                ELSE (CHOOSE k \in paragraphs : \A j \in paragraphs : k <= j) - 1
    IN  Concat([k \in 1..last |->
            CASE f.body[k] = "p" ->
                    IF Strip(f.first_p) # <<>> THEN BodyElems(f.first_p, src, k) ELSE <<>>
              [] f.body[k] = "sectPr" -> DocxImageElems(f, src)
              [] OTHER -> <<>>])

\* process_docx: every exception is caught inside
process_docx(f, src) ==
    LET meta == add_metadata_block(f, src) IN
    IF meta.raised THEN <<Title(src)>>
    ELSE IF ~f.open_ok THEN <<Title(src)>> \o meta.elems
    ELSE <<Title(src)>> \o meta.elems \o DocxTableElems(f, src) \o DocxBodyElems(f, src)

\* [str(cell.value) if cell.value is not None else '' for cell in row]
RowData(row) == [k \in 1..Len(row) |-> IF IsNA(row[k]) THEN <<>> ELSE row[k].s]

\* the rows of a sheet with a non-empty cell, as strings
SheetData(sheet) ==
    LET rows == [k \in 1..Len(sheet) |-> RowData(sheet[k])]
        NonEmpty(row_data) == \E k \in 1..Len(row_data) : row_data[k] # <<>>
    IN  SelectSeq(rows, NonEmpty)

\* pd.DataFrame(data[1:], columns=data[0]) raises when the longest data row has
\* not the length of the header row
SheetFrameRaises(data) ==
    /\ Len(data) > 1
    /\ \/ \E i \in 2..Len(data) : Len(data[i]) > Len(data[1])
       \/ \A i \in 2..Len(data) : Len(data[i]) < Len(data[1])

\* pd.DataFrame(data[1:], columns=data[0]): shorter rows are filled with None
SheetFrame(data) ==
    [index |-> [i \in 1..(Len(data) - 1) |-> i],
     columns |-> data[1],
     values |-> [i \in 1..(Len(data) - 1) |->
                    [j \in 1..Len(data[1]) |->
                        IF j <= Len(data[i + 1]) THEN StrCell(data[i + 1][j]) ELSE None]]]

\* The loop over the sheets from sheet k on; an exception ends it (it is caught
\* by the handler's outer try).
RECURSIVE XlsxSheetElems(_, _, _)
XlsxSheetElems(f, src, k) ==
    IF k > Len(f.sheets) THEN <<>>
    ELSE LET data == SheetData(f.sheets[k])
             heading == <<Elem("sheet_heading", src, k, <<>>, <<>>)>>
         IN  IF data = <<>> THEN heading \o XlsxSheetElems(f, src, k + 1)
             ELSE IF SheetFrameRaises(data) THEN heading
             ELSE LET table ==
                          create_reportlab_table(TableData(clean_table_data(SheetFrame(data))))
                  IN  IF table.result = "raised" THEN heading
                      ELSE IF table.result = "table"
                           THEN heading
                                \o <<Elem("table", src, k, <<>>, table.rows), Spacer(src, 12)>>
                                \o XlsxSheetElems(f, src, k + 1)
                      ELSE heading \o XlsxSheetElems(f, src, k + 1)

\* process_xlsx: every exception is caught inside
process_xlsx(f, src) ==
    LET meta == add_metadata_block(f, src) IN
    IF meta.raised THEN <<Title(src)>>
    ELSE IF ~f.open_ok THEN <<Title(src)>> \o meta.elems
    ELSE <<Title(src)>> \o meta.elems \o XlsxSheetElems(f, src, 1)

\* process_image: every exception is caught inside
process_image(f, src) ==
    LET meta == add_metadata_block(f, src)
        optimized_image == optimize_image(f.image_data, DefaultBox).value
    IN  IF meta.raised THEN <<Title(src)>>
        ELSE IF ~f.open_ok THEN <<Title(src)>> \o meta.elems
        ELSE IF optimized_image # None
             THEN <<Title(src)>> \o meta.elems
                  \o <<Elem("image", src, 1, <<>>, optimized_image), Spacer(src, 12)>>
        ELSE <<Title(src)>> \o meta.elems

\* The '.txt' branch of process_file: no try around add_metadata_block, open()
\* and read().
TxtBranch(f, src) ==
    LET meta == add_metadata_block(f, src) IN
    IF meta.raised THEN [raised |-> TRUE, elems |-> <<Title(src)>>]
    ELSE IF ~f.open_ok \/ ~f.decode_ok
         THEN [raised |-> TRUE, elems |-> <<Title(src)>> \o meta.elems]
    ELSE IF Strip(f.text) # <<>>
         THEN [raised |-> FALSE,
               elems |-> <<Title(src)>> \o meta.elems \o BodyElems(f.text, src, 0)]
    ELSE [raised |-> FALSE, elems |-> <<Title(src)>> \o meta.elems]

ImageExts == {"jpg", "jpeg", "png", "gif"}

supported_extensions == {"pdf", "docx", "xlsx", "txt"} \cup ImageExts

\* process_file: the elements it appends and whether an exception leaves it;
\* the closing Spacer is appended when none does
process_file(f, src) ==
    LET branch ==
            CASE f.ext = "pdf" -> [raised |-> FALSE, elems |-> process_pdf(f, src)]
              [] f.ext = "docx" -> [raised |-> FALSE, elems |-> process_docx(f, src)]
              [] f.ext = "xlsx" -> [raised |-> FALSE, elems |-> process_xlsx(f, src)]
              [] f.ext \in ImageExts -> [raised |-> FALSE, elems |-> process_image(f, src)]
              [] f.ext = "txt" -> TxtBranch(f, src)
              [] OTHER -> [raised |-> FALSE, elems |-> <<>>]
    IN  IF branch.raised THEN branch
        ELSE [raised |-> FALSE, elems |-> branch.elems \o <<Spacer(src, 20)>>]

(***************************************************************************)
(* process_directory.  files is sorted(input_dir.rglob('*')) restricted to   *)
(* regular files; idx is the position of the for loop; aborted tells that   *)
(* an exception left process_directory.                                     *)
(***************************************************************************)
NoBytes == Bytes("unidentified", "RGB", <<1, 1>>)

BaseFile(ext) ==
    [ext |-> ext, stat_ok |-> TRUE, open_ok |-> TRUE, decode_ok |-> TRUE,
     text |-> <<>>, image_data |-> NoBytes, fitz_ok |-> TRUE,
     images |-> <<>>, tables |-> <<>>, pages |-> <<>>, sheets |-> <<>>,
     docx_tables |-> <<>>, body |-> <<>>, first_p |-> <<>>, rels |-> <<>>,
     body_text |-> <<>>, ct_p_text |-> TRUE]

\* 'h\xe9llo—world', a lone control character, and 1999 + 1 + 2 characters
TxtTexts ==
    {<< <<104, 1>>, <<233, 1>>, <<108, 2>>, <<111, 1>>, <<8212, 1>>, <<119, 1>>,
        <<111, 1>>, <<114, 1>>, <<108, 1>>, <<100, 1>> >>,
     << <<1, 1>> >>,
     << <<97, max_chunk - 1>>, <<32, 1>>, <<98, 2>> >>}

TxtFiles ==
    {[BaseFile("txt") EXCEPT !.text = t] : t \in TxtTexts}
    \cup {[BaseFile("txt") EXCEPT !.decode_ok = FALSE],
          [BaseFile("txt") EXCEPT !.open_ok = FALSE],
          [BaseFile("txt") EXCEPT !.stat_ok = FALSE]}

ImageFiles ==
    {[BaseFile("png") EXCEPT !.image_data = Bytes("ok", "RGB", <<2000, 1000>>)],
     BaseFile("png")}

\* a PDF with a PNG, an image that fails to extract, a JPEG 2000 image, bytes that
\* are no image and a JPEG; one table; a page of text, a blank page, a page whose
\* text extraction fails and a page holding one control character
RichPdf ==
    [BaseFile("pdf") EXCEPT
        !.images = <<[extract |-> "ok", ext |-> "png",
                      data |-> Bytes("ok", "RGBA", <<400, 300>>)],
                     [extract |-> "raises", ext |-> "png", data |-> NoBytes],
                     [extract |-> "ok", ext |-> "jpx",
                      data |-> Bytes("ok", "RGB", <<400, 300>>)],
                     [extract |-> "ok", ext |-> "jpeg", data |-> NoBytes],
                     [extract |-> "ok", ext |-> "jpeg",
                      data |-> Bytes("ok", "RGB", <<300, 400>>)]>>,
        !.tables = <<[extract |-> "ok",
                      frame |-> Frame(2, 2,
                          << <<StrCell(<< <<88, 1>> >>), None>>,
                             <<StrCell(<<>>), StrCell(<< <<89, 1>>, <<32, 1>> >>)>> >>)]>>,
        !.pages = <<[extract |-> "ok", text |-> << <<97, 1>>, <<10, 1>>, <<98, 1>> >>],
                    [extract |-> "ok", text |-> << <<32, 2>> >>],
                    [extract |-> "raises", text |-> <<>>],
                    [extract |-> "ok", text |-> << <<1, 1>> >>]>>]

\* a PDF where listing the images of the second page fails and where the table
\* of the second page fails to extract; the first and third pages hold a good
\* image and a good table each
FailingPdf ==
    LET image == [extract |-> "ok", ext |-> "png", data |-> Bytes("ok", "RGB", <<400, 300>>)]
        table == [extract |-> "ok",
                  frame |-> Frame(1, 1, << <<StrCell(<< <<88, 1>> >>)>> >>)]
    IN  [BaseFile("pdf") EXCEPT
            !.images = <<image, [image EXCEPT !.extract = "page_raises"], image>>,
            !.tables = <<table, [table EXCEPT !.extract = "raises"], table>>,
            !.pages = <<[extract |-> "ok", text |-> << <<97, 1>> >>],
                        [extract |-> "raises", text |-> <<>>],
                        [extract |-> "ok", text |-> << <<98, 1>> >>]>>]

PdfFiles == {RichPdf, [RichPdf EXCEPT !.stat_ok = FALSE], FailingPdf}

DocxCell(s) == [text |-> s, vmerge |-> FALSE]

\* a document that starts with two tables and holds the paragraphs 'P' and 'Q'
\* after them (its first w:p is the 'H' of the first cell): a table of
\* three rows whose last row is one cell short, a table of two rows whose lower
\* left cell continues a vertical merge; a relationship to a good image, one to
\* bytes that are no image, one to a style sheet
RichDocx ==
    [BaseFile("docx") EXCEPT
        !.docx_tables =
            << << <<DocxCell(<< <<72, 1>> >>), DocxCell(<< <<73, 1>> >>)>>,
                  <<DocxCell(<< <<88, 1>> >>), DocxCell(<< <<89, 1>> >>)>>,
                  <<DocxCell(<< <<90, 1>> >>)>> >>,
               << <<DocxCell(<< <<32, 1>>, <<72, 1>> >>), DocxCell(<< <<73, 1>> >>)>>,
                  <<[text |-> <<>>, vmerge |-> TRUE], DocxCell(<<>>)>> >> >>,
        !.body = <<"tbl", "tbl", "p", "p", "sectPr">>,
        !.body_text = <<<<>>, <<>>, << <<80, 1>> >>, << <<81, 1>> >>, <<>>>>,
        !.first_p = << <<72, 1>> >>,
        !.rels = <<[is_image |-> TRUE, data |-> Bytes("ok", "P", <<1600, 1600>>)],
                   [is_image |-> TRUE, data |-> NoBytes],
                   [is_image |-> FALSE, data |-> NoBytes]>>]

DocxFiles ==
    {RichDocx, [RichDocx EXCEPT !.open_ok = FALSE], [RichDocx EXCEPT !.ct_p_text = FALSE]}

\* a workbook with a sheet of a header row, a blank row and a data row, an empty
\* sheet, a sheet of a header row alone and a sheet of two rows
XlsxFiles ==
    {[BaseFile("xlsx") EXCEPT
        !.sheets = << << <<StrCell(<< <<72, 1>> >>), StrCell(<< <<73, 1>> >>)>>,
                         <<None, None>>,
                         <<StrCell(<< <<88, 1>> >>), None>> >>,
                      <<>>,
                      << <<StrCell(<< <<72, 1>> >>), StrCell(<< <<73, 1>> >>)>> >>,
                      << <<StrCell(<< <<72, 1>> >>)>>, <<StrCell(<< <<88, 1>> >>)>> >> >>]}

OtherFiles == {BaseFile("md")}

Catalogue == TxtFiles \cup ImageFiles \cup PdfFiles \cup DocxFiles \cup XlsxFiles \cup OtherFiles

Init ==
    /\ pc = "start"
    /\ \E n \in 1..MaxFiles : files \in [1..n -> Catalogue]
    /\ idx = 1
    /\ story = <<>>
    /\ aborted = FALSE
    /\ input = <<>>
    /\ output = <<>>

\* the title page of process_directory
TitlePage ==
    /\ pc = "start"
    /\ story' = [k \in 1..3 |-> Elem("title_page", 0, k, <<>>, <<>>)] \o <<Spacer(0, 30)>>
    /\ pc' = "files"
    /\ UNCHANGED <<input, output, files, idx, aborted>>

\* a pass of the for loop that starts the story again with the elements of
\* the file at hand
VisitRebuilding(exts) ==
    /\ pc = "files"
    /\ idx <= Len(files)
    /\ files[idx].ext \in exts
    /\ LET r == process_file(files[idx], idx) IN
          /\ story' = r.elems
          /\ IF r.raised
             THEN aborted' = TRUE /\ pc' = "raised" /\ idx' = idx
             ELSE aborted' = FALSE /\ pc' = "files" /\ idx' = idx + 1
    /\ UNCHANGED <<input, output, files>>

\* one pass of the for loop for a supported file of the extensions exts
Visit(exts) ==
    /\ pc = "files"
    /\ idx <= Len(files)
    /\ files[idx].ext \in exts
    /\ LET r == process_file(files[idx], idx) IN
          /\ story' = story \o r.elems
          /\ IF r.raised
             THEN aborted' = TRUE /\ pc' = "raised" /\ idx' = idx
             ELSE aborted' = FALSE /\ pc' = "files" /\ idx' = idx + 1
    /\ UNCHANGED <<input, output, files>>

VisitPdf == pc = "files" /\ Visit({"pdf"})

VisitDocx == pc = "files" /\ Visit({"docx"})

VisitXlsx == pc = "files" /\ Visit({"xlsx"})

VisitImage == pc = "files" /\ Visit(ImageExts)

VisitTxt == pc = "files" /\ Visit({"txt"})

\* one pass of the for loop for a file whose suffix is not supported
SkipUnsupported ==
    /\ pc = "files"
    /\ idx <= Len(files)
    /\ files[idx].ext \notin supported_extensions
    /\ idx' = idx + 1
    /\ UNCHANGED <<pc, input, output, files, story, aborted>>

\* the for loop ends and process_directory returns
Finish ==
    /\ pc = "files"
    /\ idx > Len(files)
    /\ pc' = "done"
    /\ UNCHANGED <<input, output, files, idx, story, aborted>>

Next ==
    \/ TitlePage
    \/ VisitPdf
    \/ VisitDocx
    \/ VisitXlsx
    \/ VisitImage
    \/ VisitTxt
    \/ SkipUnsupported
    \/ Finish

Spec == Init /\ [][Next]_vars

\* C4: the story never holds a body Paragraph whose text is the empty string.
C4_NoEmptyParagraph ==
    \A k \in 1..Len(story) : story[k].kind = "body" => story[k].text # <<>>

\* file i was processed to its end: its closing Spacer is in the story
Processed(i) ==
    \E k \in 1..Len(story) : story[k] = Spacer(i, 20)

\* C10: no exception leaves process_file, and when process_directory is over
\* every supported file of the enumeration was processed.
C10_NoEscape ==
    /\ ~aborted
    /\ pc \in {"done", "raised"} =>
          \A i \in 1..Len(files) :
              files[i].ext \in supported_extensions => Processed(i)

\* the elements of the story appended for file i, in order
FileElems(i) ==
    LET OfFile(e) == e.src = i IN SelectSeq(story, OfFile)

\* the handler of f opens the file after the title and the metadata block, and
\* the open fails (Document(), load_workbook(), PdfReader(), open())
ExtractorThrows(f) ==
    f.ext \in {"pdf", "docx", "xlsx"} \cup ImageExts /\ f.stat_ok /\ ~f.open_ok

\* C11: when the run is over, the story holds no element at all (no title, no
\* metadata, no content, no spacer) of a file whose extractor threw.
C11_NothingOfFailedFile ==
    pc = "done" =>
        \A i \in 1..Len(files) : ExtractorThrows(files[i]) => FileElems(i) = <<>>

\* C12: the elements of every file start with exactly one Title followed by
\* exactly one metadata block (its four lines), and hold no other Title or
\* metadata line.
C12_TitleThenMetadata ==
    \A i \in 1..Len(files) :
        LET e == FileElems(i) IN
        e # <<>> =>
            /\ Len(e) >= 5
            /\ e[1].kind = "title"
            /\ \A k \in 1..4 : e[k + 1] = Elem("metadata", i, k, <<>>, <<>>)
            /\ \A k \in 6..Len(e) : e[k].kind \notin {"title", "metadata"}

\* C13: every Table and every Image of the story is immediately followed by a
\* Caption of the same file carrying the same index.
C13_CaptionFollows ==
    \A k \in 1..Len(story) :
        story[k].kind \in {"table", "image"} =>
            /\ k < Len(story)
            /\ story[k + 1] = Elem("caption", story[k].src, story[k].n, <<>>, <<>>)

(***************************************************************************)
(* The order in which process_directory visits the files.  A name is a      *)
(* sequence of code points, a path relative to input_dir the sequence of    *)
(* its names.  The run of a walk is the time stamp printed on the title      *)
(* page and the paths in the order of the for loop.                         *)
(***************************************************************************)
\* '-' and 'a'
NameChars == {45, 97}

Names == UNION {[1..n -> NameChars] : n \in 1..MaxName}

Paths == UNION {[1..d -> Names] : d \in 1..MaxDepth}

\* str.__lt__: code point by code point, a proper prefix first
RECURSIVE StrLess(_, _)
StrLess(a, b) ==
    IF a = <<>> THEN b # <<>>
    ELSE IF b = <<>> THEN FALSE
    ELSE IF Head(a) = Head(b) THEN StrLess(Tail(a), Tail(b))
    ELSE Head(a) < Head(b)

\* PurePath.__lt__: the lists of the parts are compared, name by name
RECURSIVE PathLess(_, _)
PathLess(p, q) ==
    IF p = <<>> THEN q # <<>>
    ELSE IF q = <<>> THEN FALSE
    ELSE IF Head(p) = Head(q) THEN PathLess(Tail(p), Tail(q))
    ELSE StrLess(Head(p), Head(q))

\* sorted(input_dir.rglob('*')), restricted to the files
RECURSIVE SortedPaths(_)
SortedPaths(S) ==
    IF S = {} THEN <<>>
    ELSE LET least == CHOOSE p \in S : \A q \in S \ {p} : PathLess(p, q)
         IN  <<least>> \o SortedPaths(S \ {least})

\* input_dir.rglob('*') unsorted: the order in which the file system lists them
RglobOrders(S) ==
    {q \in [1..Cardinality(S) -> S] : \A i, j \in 1..Cardinality(S) : q[i] = q[j] => i = j}

\* datetime.datetime.now() of the title page
Clock == 1..MaxClock

Run(generated, visited) == [generated |-> generated, visited |-> visited]

\* no path of the directory is a file and a directory at once
IsPrefix(p, q) == Len(p) < Len(q) /\ SubSeq(q, 1, Len(p)) = p

InitSort ==
    /\ pc = "init"
    /\ \E n \in 1..MaxPaths : \E q \in [1..n -> Paths] :
          /\ \A i \in 1..(n - 1) : PathLess(q[i], q[i + 1])
          /\ \A i, j \in 1..n : ~IsPrefix(q[i], q[j])
          /\ input = {q[i] : i \in 1..n}
    /\ output = <<>>
    /\ Idle

\* document_compiler.py process_directory, run twice over the same directory
WalkCompiler ==
    /\ pc = "init"
    /\ \E t1, t2 \in Clock :
          /\ t1 <= t2
          /\ output' = <<Run(t1, SortedPaths(input)), Run(t2, SortedPaths(input))>>
    /\ pc' = "walk_compiler"
    /\ UNCHANGED <<input, files, idx, story, aborted>>

\* document_processor.py process_directory, run twice over the same directory
WalkProcessor ==
    /\ pc = "init"
    /\ \E t1, t2 \in Clock :
          /\ t1 <= t2
          /\ output' = <<Run(t1, SortedPaths(input)), Run(t2, SortedPaths(input))>>
    /\ pc' = "walk_processor"
    /\ UNCHANGED <<input, files, idx, story, aborted>>

\* text_to_xml_converter.py process_directory, run twice: no title page and no
\* sort, each run follows the listing order of the file system
WalkXml ==
    /\ pc = "init"
    /\ \E q1, q2 \in RglobOrders(input) : output' = <<Run(0, q1), Run(0, q2)>>
    /\ pc' = "walk_xml"
    /\ UNCHANGED <<input, files, idx, story, aborted>>

NextSort == WalkCompiler \/ WalkProcessor \/ WalkXml

SpecSort == InitSort /\ [][NextSort]_vars

\* str(path): the names joined by '/'
RECURSIVE PathStr(_)
PathStr(p) ==
    IF Len(p) = 1 THEN p[1] ELSE p[1] \o <<47>> \o PathStr(Tail(p))

\* C14: the files are visited in ascending order of their full path strings,
\* and two runs over the same directory produce the same sequence.
C14_SortedAndReproducible ==
    pc \in {"walk_compiler", "walk_processor", "walk_xml"} =>
        /\ \A i \in 1..(Len(output[1].visited) - 1) :
              StrLess(PathStr(output[1].visited[i]), PathStr(output[1].visited[i + 1]))
        /\ output[1] = output[2]

\* the directory of the scenario: a 2000x1000 PNG, then a text file holding
\* 'h\xe9llo—world'
ScenarioFiles ==
    /\ Len(files) = 2
    /\ files[1] = [BaseFile("png") EXCEPT !.image_data = Bytes("ok", "RGB", <<2000, 1000>>)]
    /\ files[2] = [BaseFile("txt") EXCEPT
                      !.text = << <<104, 1>>, <<233, 1>>, <<108, 2>>, <<111, 1>>,
                                  <<8212, 1>>, <<119, 1>>, <<111, 1>>, <<114, 1>>,
                                  <<108, 1>>, <<100, 1>> >>]

\* 'hello-world'
HelloWorld ==
    << <<104, 1>>, <<101, 1>>, <<108, 2>>, <<111, 1>>, <<45, 1>>, <<119, 1>>,
       <<111, 1>>, <<114, 1>>, <<108, 1>>, <<100, 1>> >>

\* Title, then the four metadata lines
TitleAndMetadata(e, i) ==
    /\ Len(e) >= 5
    /\ e[1] = Title(i)
    /\ \A k \in 1..4 : e[k + 1] = Elem("metadata", i, k, <<>>, <<>>)

\* C15: in the scenario the photo yields Title, metadata block and an Image of
\* 800 by 400, and the text file yields Title, metadata block and exactly one
\* Paragraph whose text is 'hello-world'.
C15_Scenario ==
    (pc = "done" /\ ScenarioFiles) =>
        LET photo == FileElems(1)
            text == FileElems(2)
            IsBody(e) == e.kind = "body"
            IsImage(e) == e.kind = "image"
        IN  /\ TitleAndMetadata(photo, 1)
            /\ Len(SelectSeq(photo, IsImage)) = 1
            /\ SelectSeq(photo, IsImage)[1].data.size = <<800, 400>>
            /\ TitleAndMetadata(text, 2)
            /\ Len(SelectSeq(text, IsBody)) = 1
            /\ SelectSeq(text, IsBody)[1].text = HelloWorld

\* file i is a workbook whose title, metadata block and load_workbook succeeded
WorkbookRead(i) == files[i].ext = "xlsx" /\ files[i].stat_ok /\ files[i].open_ok

SheetHeading(i, k) == Elem("sheet_heading", i, k, <<>>, <<>>)

InStory(e) == \E k \in 1..Len(story) : story[k] = e

\* C16: a sheet whose grid has no data row (no row at all, or a header row
\* alone) yields no Table and does not stop the workbook: every later sheet is
\* still processed.
C16_EmptyGridSkipped ==
    pc = "done" =>
        \A i \in 1..Len(files) : WorkbookRead(i) =>
            \A j \in 1..Len(files[i].sheets) :
                Len(SheetData(files[i].sheets[j])) <= 1 =>
                    /\ \A e \in {story[k] : k \in 1..Len(story)} :
                          ~(e.kind = "table" /\ e.src = i /\ e.n = j)
                    /\ \A k \in (j + 1)..Len(files[i].sheets) : InStory(SheetHeading(i, k))

\* the number of elements of e of the kind
Count(e, kind) ==
    LET OfKind(x) == x.kind = kind IN Len(SelectSeq(e, OfKind))

\* the number of Spacers of e of the height
CountSpacers(e, height) ==
    LET IsSpacer(x) == x.kind = "spacer" /\ x.n = height IN Len(SelectSeq(e, IsSpacer))

\* optimize_image returns None for the bytes
NoResult(image_data) == optimize_image(image_data, DefaultBox).value = None

\* file i is an image file that was read and whose optimisation gives None
UnusableImageFile(i) ==
    /\ files[i].ext \in ImageExts
    /\ files[i].stat_ok
    /\ files[i].open_ok
    /\ NoResult(files[i].image_data)

\* file i is a PDF whose title and metadata block were appended
PdfRead(i) == files[i].ext = "pdf" /\ files[i].stat_ok

\* Image k of the PDF i is in e, followed by its Caption and a Spacer
ImageEmitted(e, i, k, optimized_image) ==
    \E p \in 1..(Len(e) - 2) :
        /\ e[p].kind = "image" /\ e[p].n = k /\ e[p].data = optimized_image
        /\ e[p + 1].kind = "caption" /\ e[p + 1].n = k
        /\ e[p + 2].kind = "spacer" /\ e[p + 2].n = 12

\* C17: an image for which optimize_image returns None leaves no Image, no
\* Caption and no Spacer in the story, and the later images, the tables and the
\* text of the same file and every later file are still processed.
C17_NoneImageSkipped ==
    pc = "done" =>
        \A i \in 1..Len(files) :
            LET f == files[i]
                e == FileElems(i)
            IN  /\ UnusableImageFile(i) =>
                      /\ Count(e, "image") = 0
                      /\ Count(e, "caption") = 0
                      /\ CountSpacers(e, 12) = 1
                      /\ \A j \in i..Len(files) :
                            files[j].ext \in supported_extensions => Processed(j)
                /\ PdfRead(i) =>
                      LET images == extract_images_from_pdf(f) IN
                      /\ \A k \in 1..Len(images) :
                            IF NoResult(images[k].data)
                            THEN \A p \in 1..Len(e) : ~(e[p].kind = "image" /\ e[p].n = k)
                            ELSE ImageEmitted(e, i, k,
                                     optimize_image(images[k].data, DefaultBox).value)
                      /\ Count(e, "caption") = Count(e, "image") + Count(e, "table")
                      /\ CountSpacers(e, 12) =
                            1 + Count(e, "image") + Count(e, "table") + Count(e, "page_header")
                      /\ Count(e, "table") = Len(PdfTableElems(f, i)) \div 3
                      /\ \A n \in 1..Len(f.pages) :
                            (f.pages[n].extract = "ok" /\ Strip(f.pages[n].text) # <<>>) =>
                                \E p \in 1..Len(e) : e[p].kind = "page_header" /\ e[p].n = n
                      /\ \A j \in i..Len(files) :
                            files[j].ext \in supported_extensions => Processed(j)

\* a PDF with an unusable image between two usable ones, and an unusable
\* image file, were processed and a file after them too
C17_Witness ==
    /\ pc = "done"
    /\ Len(files) = 3
    /\ files[1] = RichPdf
    /\ \E k \in 2..(Len(extract_images_from_pdf(files[1])) - 1) :
          /\ NoResult(extract_images_from_pdf(files[1])[k].data)
          /\ \E p \in 1..Len(story) :
                story[p].kind = "image" /\ story[p].src = 1 /\ story[p].n = k + 1
    /\ UnusableImageFile(2)
    /\ Processed(3)

\* file i is a document whose title, metadata block and Document() succeeded
DocxRead(i) == files[i].ext = "docx" /\ files[i].stat_ok /\ files[i].open_ok

\* every row of the grid has the length of its first row
Rectangular(rows) == \A r \in 1..Len(rows) : Len(rows[r]) = Len(rows[1])

GoodImage(item) ==
    /\ item.extract = "ok"
    /\ item.ext \in {"jpeg", "jpg", "png"}
    /\ ~NoResult(item.data)

\* a table of a PDF that extracts, is not empty and that the renderer accepts
GoodTable(item) ==
    /\ item.extract = "ok"
    /\ Len(item.frame.index) > 0
    /\ Len(item.frame.columns) > 0
    /\ create_reportlab_table(TableData(clean_table_data(item.frame))).result = "table"

\* a page of a PDF whose text extracts and is not blank
GoodPage(page) == page.extract = "ok" /\ Strip(page.text) # <<>>

\* C20: in a PDF that opens, every image, table and page that can be extracted
\* on its own is in the story, whatever fails at the other indexes.
C20_UnitFailureIsolated ==
    pc = "done" =>
        \A i \in 1..Len(files) :
            (PdfRead(i) /\ files[i].fitz_ok /\ files[i].open_ok) =>
                LET e == FileElems(i) IN
                /\ Count(e, "image") = Len(SelectSeq(files[i].images, GoodImage))
                /\ Count(e, "table") = Len(SelectSeq(files[i].tables, GoodTable))
                /\ Count(e, "page_header") = Len(SelectSeq(files[i].pages, GoodPage))

\* C21: a sheet in which no row has a non-empty cell contributes no element to
\* the story, neither its heading nor a table, and the sheets after it are
\* still processed.
C21_BlankSheetSkipped ==
    pc = "done" =>
        \A i \in 1..Len(files) : WorkbookRead(i) =>
            \A j \in 1..Len(files[i].sheets) :
                SheetData(files[i].sheets[j]) = <<>> =>
                    /\ \A p \in 1..Len(story) :
                          ~(/\ story[p].kind \in {"sheet_heading", "table"}
                            /\ story[p].src = i
                            /\ story[p].n = j)
                    /\ \A k \in (j + 1)..Len(files[i].sheets) : InStory(SheetHeading(i, k))

\* the texts chunking gives for each text of the sequence, one after the other
RECURSIVE ParagraphTexts(_)
ParagraphTexts(texts) ==
    IF texts = <<>> THEN <<>>
    ELSE Compiler_create_paragraph(Head(texts)).texts \o ParagraphTexts(Tail(texts))

\* the texts of the body paragraphs of the document that are not blank
BodyParagraphs(f) ==
    LET NotBlank(text) == Strip(text) # <<>>
        texts == [k \in 1..Len(f.body) |-> IF f.body[k] = "p" THEN f.body_text[k] ELSE <<>>]
    IN  SelectSeq(texts, NotBlank)

\* the texts of the body Paragraphs of e
BodyTexts(e) ==
    LET IsBody(x) == x.kind = "body"
        bodies == SelectSeq(e, IsBody)
    IN  [k \in 1..Len(bodies) |-> bodies[k].text]

\* C22: the Paragraphs emitted for a document carry the cleaned texts of its
\* non-blank body paragraphs, each its own, in the order of the body.
C22_ParagraphsInOrder ==
    pc = "done" =>
        \A i \in 1..Len(files) : DocxRead(i) =>
            BodyTexts(FileElems(i)) = ParagraphTexts(BodyParagraphs(files[i]))

(***************************************************************************)
(* process_docx of the two assemblers on one document.                      *)
(***************************************************************************)
\* df.empty where df is what extract_table_from_docx returned: a list of rows
\* has no attribute 'empty', the lookup raises AttributeError
EmptyAttribute(df) == [raised |-> TRUE, value |-> df = <<>>]

\* DocumentProcessor.process_docx, the loop over the tables: an exception in the
\* body of the loop drops the table
ProcessorDocxTableElems(f, src) ==
    Concat([k \in 1..Len(f.docx_tables) |->
        LET df == extract_table_from_docx(f.docx_tables[k])
            empty == EmptyAttribute(df)
        IN  IF empty.raised \/ empty.value THEN <<>>
            ELSE <<Elem("table", src, k, <<>>, df),
                   Elem("caption", src, k, <<>>, <<>>),
                   Spacer(src, 12)>>])

\* DocumentProcessor.process_docx: every exception is caught inside
Processor_process_docx(f, src) ==
    LET meta == add_metadata_block(f, src) IN
    IF meta.raised THEN <<Title(src)>>
    ELSE IF ~f.open_ok THEN <<Title(src)>> \o meta.elems
    ELSE <<Title(src)>> \o meta.elems
         \o ProcessorDocxTableElems(f, src) \o DocxBodyElems(f, src)

\* 'X', ' Y', an empty cell, an empty cell that continues a vertical merge
DocxCells ==
    {DocxCell(<< <<88, 1>> >>), DocxCell(<< <<32, 1>>, <<89, 1>> >>), DocxCell(<<>>),
     [text |-> <<>>, vmerge |-> TRUE]}

DocxRowsOf == UNION {[1..m -> DocxCells] : m \in 1..MaxDocxCols}

\* a document of one table and the body paragraph 'P', before or after the table
DocxDocument(table, table_first) ==
    [BaseFile("docx") EXCEPT
        !.docx_tables = <<table>>,
        !.body = IF table_first THEN <<"tbl", "p", "sectPr">> ELSE <<"p", "tbl", "sectPr">>,
        !.body_text = IF table_first THEN <<<<>>, << <<80, 1>> >>, <<>>>>
                      ELSE << << <<80, 1>> >>, <<>>, <<>>>>,
        !.first_p = IF table_first THEN table[1][1].text ELSE << <<80, 1>> >>]

InitDocx ==
    /\ pc = "init"
    /\ \E n \in 1..MaxDocxRows : \E table \in [1..n -> DocxRowsOf] :
          \E table_first \in BOOLEAN : input = DocxDocument(table, table_first)
    /\ output = <<>>
    /\ Idle

ProcessDocxCompiler ==
    /\ pc = "init"
    /\ story' = process_docx(input, 1)
    /\ pc' = "docx_compiler"
    /\ UNCHANGED <<input, output, files, idx, aborted>>

ProcessDocxProcessor ==
    /\ pc = "init"
    /\ story' = Processor_process_docx(input, 1)
    /\ pc' = "docx_processor"
    /\ UNCHANGED <<input, output, files, idx, aborted>>

ExtractTableFromDocx ==
    /\ pc = "init"
    /\ output' = extract_table_from_docx(input.docx_tables[1])
    /\ pc' = "extracted"
    /\ UNCHANGED <<input, files, idx, story, aborted>>

NextDocx == ProcessDocxCompiler \/ ProcessDocxProcessor \/ ExtractTableFromDocx

SpecDocx == InitDocx /\ [][NextDocx]_vars

\* C23: in both assemblers every table of the document yields one Table, and
\* every Table of the story precedes every body Paragraph.
C23_TablesFirst ==
    pc \in {"docx_compiler", "docx_processor"} =>
        /\ \A k \in 1..Len(input.docx_tables) :
              Cardinality({p \in 1..Len(story) :
                              story[p].kind = "table" /\ story[p].n = k}) = 1
        /\ \A p, q \in 1..Len(story) :
              (story[p].kind = "table" /\ story[q].kind = "body") => p < q

C25_AppendOnly ==
    [][/\ Len(story) <= Len(story')
       /\ SubSeq(story', 1, Len(story)) = story
       /\ \A i \in 1..Len(files) : i < idx => FileElems(i)' = FileElems(i)]_vars

\* a run over two files or more in which the first two files have elements
C25_Witness ==
    /\ pc = "done"
    /\ Len(files) >= 2
    /\ Len(FileElems(1)) > 1
    /\ Len(FileElems(2)) > 1

\* C26: clean_text is idempotent in every variant: cleaning the text that
\* clean_text returned gives that text again.
C26_Idempotent ==
    /\ pc = "compiler" => Compiler_clean_text(output) = output
    /\ pc = "processor" => Processor_clean_text(output) = output
    /\ pc = "xml" => Xml_clean_text(output) = output

\* the positions of the elements of kind kinds among the elements e of a file
Positions(e, kinds) == {p \in 1..Len(e) : e[p].kind \in kinds}

\* the elements e of one PDF are in the order images, tables, page text: an
\* image and the caption after it stand before every table, a table and the
\* caption after it before every page header and body Paragraph
PdfOrder(e) ==
    /\ \A p \in Positions(e, {"image"}), q \in Positions(e, {"table"}) : p + 1 < q
    /\ \A p \in Positions(e, {"image", "table"}) :
          /\ p + 1 \in Positions(e, {"caption"})
          /\ e[p + 1].n = e[p].n
    /\ \A p \in Positions(e, {"table"}), q \in Positions(e, {"page_header", "body"}) :
          p + 1 < q

\* the page blocks of e follow the pages of f: headers in ascending page
\* number, one per page with text that is not whitespace only, every body
\* Paragraph under the header of its own page
PdfPages(f, e) ==
    /\ \A p, q \in Positions(e, {"page_header"}) : p < q => e[p].n < e[q].n
    /\ \A p \in Positions(e, {"page_header"}) :
          /\ e[p].n \in 1..Len(f.pages)
          /\ Strip(f.pages[e[p].n].text) # <<>>
    /\ \A n \in 1..Len(f.pages) :
          Strip(f.pages[n].text) = <<>> =>
              \A p \in Positions(e, {"page_header", "body"}) : e[p].n # n
    /\ \A q \in Positions(e, {"body"}) :
          \E p \in Positions(e, {"page_header"}) :
              /\ p < q
              /\ e[p].n = e[q].n
              /\ \A m \in (p + 1)..(q - 1) : e[m].kind = "body"

\* C27: in the elements of one PDF file every image with its caption stands
\* before every table with its caption and every table before every page
\* block; the page blocks are in ascending page number under a 'Page N' header
\* with N counted from 1; a page of whitespace only has no element.
C27_PdfOrder ==
    \A i \in 1..Len(files) :
        files[i].ext = "pdf" => /\ PdfOrder(FileElems(i))
                                /\ PdfPages(files[i], FileElems(i))

\* a PDF with a whitespace-only page was processed and has an image, a table
\* and the text of two pages in the story
C27_Witness ==
    \E i \in 1..Len(files) :
        /\ files[i].ext = "pdf"
        /\ Processed(i)
        /\ \E n \in 1..Len(files[i].pages) :
              files[i].pages[n].extract = "ok" /\ Strip(files[i].pages[n].text) = <<>>
        /\ Positions(FileElems(i), {"image"}) # {}
        /\ Positions(FileElems(i), {"table"}) # {}
        /\ Cardinality(Positions(FileElems(i), {"page_header"})) >= 2
        /\ Positions(FileElems(i), {"body"}) # {}

(***************************************************************************)
(* streamlit_app.py: the four-step wizard.  output is st.session_state,     *)
(* input is the OpportunityAnalyzer kept in it, pc tells what the last      *)
(* script run left on the screen: "login" the login form, "shown" the page  *)
(* of the current step, "error" a page cut short by an uncaught exception,  *)
(* "rerun" that st.rerun() asked for another run.  A key that is not in     *)
(* st.session_state has present = FALSE (context: "absent").  The keys      *)
(* tender_processor, submitter_context and tender_response_complete keep    *)
(* their first values in every run (see TenderResponse) and are left out.   *)
(***************************************************************************)
MaxUploads == 2

MaxChat == 2

Questions == {"q1", "q2"}

\* generate_content returns a response with text, raises, or returns a
\* response whose .text raises (no candidate)
ModelOutcomes == {"ok", "raises", "no_text"}

Absent == [present |-> FALSE, msgs |-> <<>>]

Message(role, content) == [role |-> role, content |-> content]

\* f"Error generating response: {str(e)}"
ErrorReply(e) == <<"Error generating response: ", e>>

\* reset_app_state: every key but opportunity_processor is deleted, five keys
\* are set again; 'authenticated' is one of the deleted keys and is False
\* again at the top of the next run
reset_app_state ==
    [authenticated |-> FALSE, current_step |-> 1, uploaded_files |-> 0,
     compilation_complete |-> FALSE, compiled_pdf |-> "None",
     analysis_complete |-> FALSE, chat_messages |-> Absent,
     chat_history |-> Absent, context |-> "absent"]

next_step(ss) == [ss EXCEPT !.current_step = @ + 1]

prev_step(ss) == [ss EXCEPT !.current_step = @ - 1]

\* OpportunityAnalyzer.analyze_document: the analyzer and the session state
\* after the call; every exception is caught inside
analyze_document(self, ss, meta, model) ==
    IF ss.analysis_complete /\ ss.context \notin {"", "absent"}
    THEN [self |-> self, ss |-> ss]
    ELSE IF ss.analysis_complete /\ ss.context = "absent"
    THEN [self |-> self, ss |-> ss]
    ELSE LET attached == [self EXCEPT !.pdf_info = meta] IN
         IF model # "ok" THEN [self |-> attached, ss |-> ss]
         ELSE LET done == [ss EXCEPT !.context = "analysis", !.analysis_complete = TRUE] IN
              IF ss.chat_history.present
              THEN [self |-> attached,
                    ss |-> [done EXCEPT !.chat_history.msgs =
                                Append(@, Message("system", <<"Document attached">>))]]
              ELSE [self |-> attached, ss |-> done]

\* get_chat_response storing the user message before it reads response.text
Analyzer_get_chat_response_user_first(self, ss, user_message, model) ==
    IF self.pdf_info \in {"none", "empty"}
    THEN [reply |-> ErrorReply("No document is attached to this conversation"),
          chat_history |-> ss.chat_history]
    ELSE IF ~ss.chat_history.present \/ ss.context = "absent"
    THEN [reply |-> ErrorReply("st.session_state has no attribute"),
          chat_history |-> ss.chat_history]
    ELSE IF model = "raises"
    THEN [reply |-> ErrorReply("model"), chat_history |-> ss.chat_history]
    ELSE IF model = "no_text"
    THEN [reply |-> ErrorReply("response.text"),
          chat_history |-> [ss.chat_history EXCEPT !.msgs =
              Append(@, Message("user", <<user_message>>))]]
    ELSE [reply |-> <<"answer">>,
          chat_history |-> [ss.chat_history EXCEPT !.msgs =
              @ \o <<Message("user", <<user_message>>), Message("assistant", <<"answer">>)>>]]

\* OpportunityAnalyzer.get_chat_response: the returned string and the chat
\* history after the call
Analyzer_get_chat_response(self, ss, user_message, model) ==
    IF self.pdf_info \in {"none", "empty"}
    THEN [reply |-> ErrorReply("No document is attached to this conversation"),
          chat_history |-> ss.chat_history]
    ELSE IF ~ss.chat_history.present \/ ss.context = "absent"
    THEN [reply |-> ErrorReply("st.session_state has no attribute"),
          chat_history |-> ss.chat_history]
    ELSE IF model = "raises"
    THEN [reply |-> ErrorReply("model"), chat_history |-> ss.chat_history]
    ELSE IF model = "no_text"
    THEN [reply |-> ErrorReply("response.text"), chat_history |-> ss.chat_history]
    ELSE [reply |-> <<"answer">>,
          chat_history |-> [ss.chat_history EXCEPT !.msgs =
              @ \o <<Message("user", <<user_message>>), Message("assistant", <<"answer">>)>>]]

InitWizard ==
    /\ pc = "login"
    /\ output = [reset_app_state EXCEPT
                    !.chat_history = [present |-> TRUE, msgs |-> <<>>],
                    !.context = ""]
    /\ input = [pdf_info |-> "none"]
    /\ Idle

\* login_form with a matching user name and password
Login ==
    /\ pc = "login"
    /\ output' = [output EXCEPT !.authenticated = TRUE]
    /\ pc' = "rerun"
    /\ UNCHANGED <<input, files, idx, story, aborted>>

\* the Logout button: logout() runs before the def of reset_app_state was
\* executed in this run, so the call raises NameError after the two
\* assignments; the next run shows the login form
Logout ==
    /\ pc \in {"shown", "error"}
    /\ output' = [output EXCEPT !.authenticated = FALSE]
    /\ pc' = "login"
    /\ UNCHANGED <<input, files, idx, story, aborted>>

\* the Restart Process button
RestartProcess ==
    /\ pc \in {"shown", "error"}
    /\ output' = reset_app_state
    /\ pc' = "login"
    /\ UNCHANGED <<input, files, idx, story, aborted>>

\* a run at step 1 with nothing in the uploader
ShowUpload ==
    /\ pc = "rerun"
    /\ output.current_step = 1
    /\ pc' = "shown"
    /\ UNCHANGED <<input, output, files, idx, story, aborted>>

\* the user puts k files into the uploader of step 1
Upload ==
    /\ pc = "shown"
    /\ output.current_step = 1
    /\ \E k \in 1..MaxUploads :
          output' = next_step([output EXCEPT !.uploaded_files = k])
    /\ pc' = "rerun"
    /\ UNCHANGED <<input, files, idx, story, aborted>>

\* a Back button drawn at every step
BackAtEveryStep ==
    /\ pc = "shown"
    /\ output' = prev_step(output)
    /\ pc' = "rerun"
    /\ UNCHANGED <<input, files, idx, story, aborted>>

\* a run at step 2 that goes on to step 3 whether or not the compiled file
\* was read
CompileUnread ==
    /\ pc = "rerun"
    /\ output.current_step = 2
    /\ \E outcome \in {"pdf", "no_output"} :
          output' = next_step([output EXCEPT
                        !.compiled_pdf = IF outcome = "pdf" THEN "pdf" ELSE @,
                        !.compilation_complete = TRUE])
    /\ pc' = "rerun"
    /\ UNCHANGED <<input, files, idx, story, aborted>>

\* a run at step 2: the compilation writes the output file, writes none
\* (save_output caught the error) or raises; with compilation_complete
\* already set the download button reads output_file, a name this run never
\* assigned (NameError)
Compile ==
    /\ pc = "rerun"
    /\ output.current_step = 2
    /\ IF output.uploaded_files = 0
       THEN pc' = "shown" /\ output' = output
       ELSE IF output.compilation_complete
       THEN pc' = "error" /\ output' = output
       ELSE \E outcome \in {"pdf", "no_output", "raises"} :
               CASE outcome = "pdf" ->
                        /\ output' = next_step([output EXCEPT
                                         !.compiled_pdf = "pdf",
                                         !.compilation_complete = TRUE])
                        /\ pc' = "rerun"
                 [] outcome = "no_output" -> pc' = "shown" /\ output' = output
                 [] outcome = "raises" -> pc' = "error" /\ output' = output
    /\ UNCHANGED <<input, files, idx, story, aborted>>

\* the Back button of the page shown at step 2, 3 or 4
Back ==
    /\ pc = "shown"
    /\ output.current_step \in {2, 3, 4}
    /\ output' = IF output.current_step = 3 /\ output.compiled_pdf # "None"
                 THEN [prev_step(output) EXCEPT !.analysis_complete = FALSE]
                 ELSE prev_step(output)
    /\ pc' = "rerun"
    /\ UNCHANGED <<input, files, idx, story, aborted>>

\* a run at step 3: the analysis on the first run, then the page
Analyse ==
    /\ pc = "rerun"
    /\ output.current_step = 3
    /\ IF output.compiled_pdf = "None"
       THEN UNCHANGED <<input, output>>
       ELSE LET ss == IF output.chat_messages.present THEN output
                      ELSE [output EXCEPT !.chat_messages = [present |-> TRUE, msgs |-> <<>>]]
            IN  IF ss.analysis_complete
                THEN output' = ss /\ input' = input
                ELSE \E meta \in {"meta", "empty"}, model \in ModelOutcomes :
                        LET r == analyze_document(input, ss, meta, model) IN
                        /\ input' = r.self
                        /\ output' = [r.ss EXCEPT !.analysis_complete = TRUE]
    /\ pc' = "shown"
    /\ UNCHANGED <<files, idx, story, aborted>>

\* the Generate Tender Response button of step 3
GenerateTenderResponse ==
    /\ pc = "shown"
    /\ output.current_step = 3
    /\ output.compiled_pdf # "None"
    /\ output.analysis_complete
    /\ output' = next_step(output)
    /\ pc' = "rerun"
    /\ UNCHANGED <<input, files, idx, story, aborted>>

\* the chat form of step 3 is sent with a question
Chat ==
    /\ pc = "shown"
    /\ output.current_step = 3
    /\ output.compiled_pdf # "None"
    /\ Len(output.chat_messages.msgs) < 2 * MaxChat
    /\ \E q \in Questions, model \in ModelOutcomes :
          LET r == Analyzer_get_chat_response(input, output, q, model) IN
          output' = [output EXCEPT
                        !.chat_messages.msgs =
                            @ \o <<Message("user", <<q>>), Message("assistant", r.reply)>>,
                        !.chat_history = r.chat_history]
    /\ pc' = "rerun"
    /\ UNCHANGED <<input, files, idx, story, aborted>>

\* a run at step 4: tender_processor is None and OpportunityAnalyzer has no
\* attribute analysis_context, so the run ends with AttributeError before
\* the page and its Back button are drawn
TenderResponse ==
    /\ pc = "rerun"
    /\ output.current_step = 4
    /\ pc' = IF output.analysis_complete THEN "error" ELSE "shown"
    /\ UNCHANGED <<input, output, files, idx, story, aborted>>

NextWizard ==
    \/ Login
    \/ Logout
    \/ RestartProcess
    \/ ShowUpload
    \/ Upload
    \/ Compile
    \/ Back
    \/ Analyse
    \/ GenerateTenderResponse
    \/ Chat
    \/ TenderResponse

SpecWizard == InitWizard /\ [][NextWizard]_vars

Dashboard_get_chat_response(self, user_message, model) ==
    IF self.pdf_info \in {"none", "empty"}
    THEN [reply |-> ErrorReply("No PDF document is attached to this conversation"),
          chat_history |-> self.chat_history]
    ELSE IF model = "raises"
    THEN [reply |-> ErrorReply("model"), chat_history |-> self.chat_history]
    ELSE IF model = "no_text"
    THEN [reply |-> ErrorReply("response.text"),
          chat_history |-> [self.chat_history EXCEPT !.msgs =
              Append(@, Message("user", <<user_message>>))]]
    ELSE [reply |-> <<"answer">>,
          chat_history |-> [self.chat_history EXCEPT !.msgs =
              @ \o <<Message("user", <<user_message>>), Message("assistant", <<"answer">>)>>]]

\* an object of either class: no document, a document whose metadata could
\* not be read (pdf_info = {}), or a document; the session key chat_history
\* may have been deleted by reset_app_state
InitChat ==
    /\ pc = "init"
    /\ \E class \in {"analyzer", "dashboard"}, info \in {"none", "empty", "meta"},
          present \in BOOLEAN, attached \in BOOLEAN :
          /\ class = "dashboard" => present
          /\ ~present => ~attached
          /\ input = [class |-> class, pdf_info |-> info,
                      context |-> IF present THEN "analysis" ELSE "absent",
                      chat_history |->
                          [present |-> present,
                           msgs |-> IF attached
                                    THEN <<Message("system", <<"Document attached">>)>>
                                    ELSE <<>>]]
    /\ output = <<>>
    /\ Idle

GetChatResponseAnalyzer ==
    /\ input.class = "analyzer"
    /\ Len(input.chat_history.msgs) <= 2 * MaxChat
    /\ \E q \in Questions, model \in ModelOutcomes :
          LET r == Analyzer_get_chat_response(input, input, q, model) IN
          /\ input' = [input EXCEPT !.chat_history = r.chat_history]
          /\ output' = [question |-> q, model |-> model, reply |-> r.reply]
    /\ pc' = "analyzer"
    /\ UNCHANGED <<files, idx, story, aborted>>

GetChatResponseDashboard ==
    /\ input.class = "dashboard"
    /\ Len(input.chat_history.msgs) <= 2 * MaxChat
    /\ \E q \in Questions, model \in ModelOutcomes :
          LET r == Dashboard_get_chat_response(input, q, model) IN
          /\ input' = [input EXCEPT !.chat_history = r.chat_history]
          /\ output' = [question |-> q, model |-> model, reply |-> r.reply]
    /\ pc' = "dashboard"
    /\ UNCHANGED <<files, idx, story, aborted>>

NextChat == GetChatResponseAnalyzer \/ GetChatResponseDashboard

SpecChat == InitChat /\ [][NextChat]_vars

\* the returned string starts with 'Error generating response:'
Failed(reply) == reply[1] = "Error generating response: "

\* C30: a call of OpportunityAnalyzer.get_chat_response with no document
\* attached, or whose model call raises, returns a string that starts with
\* 'Error generating response:'; a call that returns such a string leaves
\* the chat history as it was, every other call appends the user message
\* and then the assistant message, and nothing else.
C30_HistoryOnSuccessOnly ==
    [][pc' = "analyzer" =>
          /\ (input.pdf_info \in {"none", "empty"} \/ output'.model = "raises")
                => Failed(output'.reply)
          /\ Failed(output'.reply) => input'.chat_history = input.chat_history
          /\ ~Failed(output'.reply) =>
                input'.chat_history.msgs = input.chat_history.msgs
                    \o <<Message("user", <<output'.question>>),
                         Message("assistant", output'.reply)>>]_vars

\* a call whose model call raised, after an earlier call had succeeded
C30_Witness ==
    /\ pc = "analyzer"
    /\ input.pdf_info = "meta"
    /\ output.model = "raises"
    /\ \E k \in 1..Len(input.chat_history.msgs) :
          input.chat_history.msgs[k].role = "assistant"

====
